---- MODULE Spec2Model ----
(***************************************************************************)
(* Monte_Carlo_Option_Pricing.ipynb as a state machine.                    *)
(*                                                                         *)
(* The notebook is a sequence of code cells that share one kernel          *)
(* namespace: Inputs (cell 2), Input Validation (cell 3), Monte-Carlo      *)
(* simulation (cell 4) and the Black-Scholes comparison (cell 5).  One     *)
(* pricing request is one top-to-bottom run of the cells; a cell that      *)
(* raises ends the run.  The namespace survives from one request to the    *)
(* next.                                                                   *)
(*                                                                         *)
(* Numbers.  A float is modelled by an exact extended rational            *)
(* [n |-> numerator, d |-> denominator] in lowest terms with d > 0, plus   *)
(* the IEEE specials +inf = 1/0, -inf = -1/0 and nan = 0/0.  np.exp is the *)
(* exponential function on the integers in base 2 (the inputs are chosen   *)
(* so that every exponent is an integer), np.log its inverse, so that the  *)
(* laws exp(a+b) = exp(a)*exp(b), exp(0) = 1 and monotonicity hold         *)
(* exactly.  norm.cdf is kept as an uninterpreted term except at +-inf and *)
(* nan.                                                                    *)
(***************************************************************************)
EXTENDS Integers, Sequences, FiniteSets, TLC

VARIABLES
    S0, K, T, rf, sigma, n_simul, dt, option_type, option_nature,  \* cell 2
    n_steps, random_walks, antithetic_random_walks,                \* cell 4
    coeff_multiplicateur, simulated_prices, payoff,
    discount_factor, option_price,
    namespace,   \* names bound in the kernel by cells 4 and 5
    rng,         \* state of numpy's global random generator
    pc,          \* the cell the current run executes next
    error,       \* the exception that ended the current run, or "none"
    stdout,      \* what the current run has printed
    assigned,    \* names the current run has (re)bound
    draws,       \* normals the current run has drawn
    requests     \* pricing requests started in this kernel

inputs == <<S0, K, T, rf, sigma, n_simul, dt, option_type, option_nature>>
cell4 == <<n_steps, random_walks, antithetic_random_walks, coeff_multiplicateur,
           simulated_prices, payoff, discount_factor>>
vars == <<inputs, cell4, option_price, namespace, rng, pc, error, stdout,
          assigned, draws, requests>>

----------------------------------------------------------------------------
(* Bounds of the model *)

\* largest n_simul an Inputs cell sets
MaxSimul == 4

\* pricing requests made in one kernel session
MaxRequests == 2

----------------------------------------------------------------------------
(* Extended rational arithmetic standing for float64 *)

Abs(x) == IF x < 0 THEN -x ELSE x

Sgn(x) == IF x > 0 THEN 1 ELSE IF x < 0 THEN -1 ELSE 0

RECURSIVE Gcd(_, _)
Gcd(a, b) == IF b = 0 THEN a ELSE Gcd(b, a % b)

\* n/d in lowest terms; d = 0 gives the specials
Frac(n, d) ==
    IF d = 0 THEN [n |-> Sgn(n), d |-> 0]
    ELSE LET g == Gcd(Abs(n), Abs(d))
             s == Sgn(d)
         IN  [n |-> (s * n) \div g, d |-> Abs(d) \div g]

Q(i) == [n |-> i, d |-> 1]

NaN == [n |-> 0, d |-> 0]
PosInf == [n |-> 1, d |-> 0]
NegInf == [n |-> -1, d |-> 0]

IsNaN(a) == a.d = 0 /\ a.n = 0
IsInf(a) == a.d = 0 /\ a.n # 0
IsFinite(a) == a.d # 0

Neg(a) == [n |-> -a.n, d |-> a.d]

Add(a, b) ==
    IF IsNaN(a) \/ IsNaN(b) THEN NaN
    ELSE IF IsInf(a) THEN (IF IsInf(b) /\ b.n # a.n THEN NaN ELSE a)
    ELSE IF IsInf(b) THEN b
    ELSE Frac(a.n * b.d + b.n * a.d, a.d * b.d)

Sub(a, b) == Add(a, Neg(b))

Mul(a, b) ==
    IF IsNaN(a) \/ IsNaN(b) THEN NaN
    ELSE IF IsInf(a) \/ IsInf(b)
         THEN [n |-> Sgn(a.n) * Sgn(b.n), d |-> 0]
    ELSE Frac(a.n * b.n, a.d * b.d)

\* numpy float division: x/0 is +-inf or nan, never an exception
Div(a, b) ==
    IF IsNaN(a) \/ IsNaN(b) THEN NaN
    ELSE IF IsInf(a) THEN (IF IsInf(b) THEN NaN
                           ELSE [n |-> a.n * (IF b.n < 0 THEN -1 ELSE 1), d |-> 0])
    ELSE IF IsInf(b) THEN Q(0)
    ELSE IF b.n = 0 THEN [n |-> Sgn(a.n), d |-> 0]
    ELSE Frac(a.n * b.d, a.d * b.n)

\* a < b; false when either side is nan
Lt(a, b) ==
    IF IsNaN(a) \/ IsNaN(b) THEN FALSE
    ELSE IF IsInf(a) THEN a.n < 0 /\ ~(IsInf(b) /\ b.n < 0)
    ELSE IF IsInf(b) THEN b.n > 0
    ELSE a.n * b.d < b.n * a.d

Le(a, b) == ~IsNaN(a) /\ ~IsNaN(b) /\ ~Lt(b, a)

\* np.maximum: nan propagates
Maximum(a, b) ==
    IF IsNaN(a) \/ IsNaN(b) THEN NaN ELSE IF Lt(a, b) THEN b ELSE a

\* int(x) of a finite float: truncation toward zero
Trunc(a) == Sgn(a.n) * (Abs(a.n) \div a.d)

RECURSIVE Pow2(_)
Pow2(k) == IF k = 0 THEN 1 ELSE 2 * Pow2(k - 1)

\* np.exp on an integer-valued argument
Exp(a) ==
    IF IsNaN(a) THEN NaN
    ELSE IF IsInf(a) THEN (IF a.n > 0 THEN PosInf ELSE Q(0))
    ELSE IF a.n >= 0 THEN Q(Pow2(a.n)) ELSE Frac(1, Pow2(-a.n))

RECURSIVE Log2(_)
Log2(m) == IF m <= 1 THEN 0 ELSE 1 + Log2(m \div 2)

\* np.log, the inverse of Exp: nan below 0 and -inf at 0, without raising
Log(a) ==
    IF IsNaN(a) THEN NaN
    ELSE IF IsInf(a) THEN (IF a.n > 0 THEN PosInf ELSE NaN)
    ELSE IF a.n < 0 THEN NaN
    ELSE IF a.n = 0 THEN NegInf
    ELSE Q(Log2(a.n) - Log2(a.d))

\* x ** 0.5 on a perfect square
Sqrt(a) ==
    LET r(m) == CHOOSE i \in 0..m : i * i = m
    IN  Frac(r(a.n), r(a.d))

\* round to the nearest integer, halves to the even neighbour
RoundHalfEven(a) ==
    LET fl == IF a.n >= 0 THEN a.n \div a.d ELSE -((-a.n + a.d - 1) \div a.d)
        twice == 2 * (a.n - fl * a.d)
    IN  IF twice < a.d THEN fl
        ELSE IF twice > a.d THEN fl + 1
        ELSE IF fl % 2 = 0 THEN fl ELSE fl + 1

\* the value an f-string shows for {x:.2f}
Format2f(a) == IF IsFinite(a) THEN Frac(RoundHalfEven(Mul(a, Q(100))), 100) ELSE a

----------------------------------------------------------------------------
(* Vectors and matrices: a matrix is a sequence of rows *)

RECURSIVE SumSeq(_)
SumSeq(s) == IF s = <<>> THEN Q(0) ELSE Add(SumSeq(SubSeq(s, 1, Len(s) - 1)), s[Len(s)])

\* np.mean of a vector; the mean of an empty vector is nan
Mean(s) == Div(SumSeq(s), Q(Len(s)))

\* np.cumprod along one row
RECURSIVE CumProd(_)
CumProd(s) ==
    IF s = <<>> THEN <<>>
    ELSE LET front == CumProd(SubSeq(s, 1, Len(s) - 1))
         IN  Append(front, IF front = <<>> THEN s[Len(s)]
                           ELSE Mul(front[Len(front)], s[Len(s)]))

----------------------------------------------------------------------------
(* The random source: numpy's global generator.  Its state decides every   *)
(* later draw; the kernel starts it from operating-system entropy.         *)

RandomStream == <<1, -1, 0, 1, 0>>

RngStates == 1..Len(RandomStream)

\* the k-th normal drawn from state s
Normal(s, k) == RandomStream[((s + k - 2) % Len(RandomStream)) + 1]

\* the state after count draws
Advance(s, count) == ((s + count - 1) % Len(RandomStream)) + 1

\* np.random.normal(0, 1, (rows, cols)), filled row by row
RandomNormal(s, rows, cols) ==
    [i \in 1..rows |-> [j \in 1..cols |-> Q(Normal(s, (i - 1) * cols + j))]]

----------------------------------------------------------------------------
(* Cell 2: Inputs *)

PyInt(v) == [pytype |-> "int", val |-> v]
PyFloat(v) == [pytype |-> "float", val |-> v]

\* the values an Inputs cell sets, for each input the ones like the
\* notebook's own first
S0_Values == <<Q(4), Q(-4)>>
K_Values == <<Q(4), Q(0)>>
T_Values == <<Q(2), Q(1), Frac(3, 2), Q(0), Q(-1)>>
rf_Values == <<Q(2), Q(0)>>
sigma_Values == <<Q(2), Q(0), Q(-2)>>
n_simul_Values == [i \in 1..(MaxSimul + 1) |-> PyInt(MaxSimul + 1 - i)] \o <<PyFloat(2)>>
dt_Values == <<Q(1), Q(0)>>
option_type_Values == <<"call", "put", "straddle">>
option_nature_Values == <<"european", "asiatic", "american">>

\* the kernel namespace as one record
Kernel ==
    [S0 |-> S0, K |-> K, T |-> T, rf |-> rf, sigma |-> sigma, n_simul |-> n_simul,
     dt |-> dt, option_type |-> option_type, option_nature |-> option_nature,
     n_steps |-> n_steps, random_walks |-> random_walks,
     antithetic_random_walks |-> antithetic_random_walks,
     coeff_multiplicateur |-> coeff_multiplicateur,
     simulated_prices |-> simulated_prices, payoff |-> payoff,
     discount_factor |-> discount_factor, option_price |-> option_price,
     namespace |-> namespace, rng |-> rng, error |-> error, stdout |-> stdout,
     assigned |-> assigned, draws |-> draws]

\* a name keeps the value its first binding gave it
Bind_Once(k, name, value) ==
    IF name \in k.namespace
    THEN [k EXCEPT !.assigned = @ \cup {name}]
    ELSE [k EXCEPT ![name] = value,
                   !.namespace = @ \cup {name},
                   !.assigned = @ \cup {name}]

\* name = value
Bind(k, name, value) ==
    [k EXCEPT ![name] = value,
              !.namespace = @ \cup {name},
              !.assigned = @ \cup {name}]

Raise(k, exception) == [k EXCEPT !.error = exception]

Show(k, line) == [k EXCEPT !.stdout = Append(@, line)]

\* what every run of the Inputs cell does besides binding the nine inputs
StartRequest ==
    /\ pc = "idle"
    /\ requests < MaxRequests
    /\ requests' = requests + 1
    /\ pc' = "validation"
    /\ error' = "none"
    /\ stdout' = <<>>
    /\ assigned' = {}
    /\ draws' = 0
    /\ UNCHANGED <<cell4, option_price, namespace, rng>>

\* the first request of a kernel session
Inputs ==
    /\ requests = 0
    /\ StartRequest
    /\ \E i \in DOMAIN S0_Values : S0' = S0_Values[i]
    /\ \E i \in DOMAIN K_Values : K' = K_Values[i]
    /\ \E i \in DOMAIN T_Values : T' = T_Values[i]
    /\ \E i \in DOMAIN rf_Values : rf' = rf_Values[i]
    /\ \E i \in DOMAIN sigma_Values : sigma' = sigma_Values[i]
    /\ \E i \in DOMAIN n_simul_Values : n_simul' = n_simul_Values[i]
    /\ \E i \in DOMAIN dt_Values : dt' = dt_Values[i]
    /\ \E i \in DOMAIN option_type_Values : option_type' = option_type_Values[i]
    /\ \E i \in DOMAIN option_nature_Values : option_nature' = option_nature_Values[i]

\* a later request of the session: the Inputs cell is run again with the
\* same market inputs and any option_type and option_nature
EditInputs ==
    /\ requests > 0
    /\ StartRequest
    /\ \E i \in DOMAIN option_type_Values : option_type' = option_type_Values[i]
    /\ \E i \in DOMAIN option_nature_Values : option_nature' = option_nature_Values[i]
    /\ UNCHANGED <<S0, K, T, rf, sigma, n_simul, dt>>

----------------------------------------------------------------------------
(* Cell 3: Input Validation *)

\* isinstance(x, (int, float)): every number of the model is one
IsIntOrFloat(x) == x \in [n : Int, d : Nat]

\* isinstance(n_simul, int)
IsPyInt(x) == x.pytype = "int"

\* the option_type assertion left out
ValidOptionType_Unchecked(t) == TRUE

ValidOptionType(t) == t \in {"call", "put"}

ValidOptionNature(s) == s \in {"european", "asiatic"}

\* the nine assertions, in order
Assertions(k) ==
    /\ IsIntOrFloat(k.S0)
    /\ IsIntOrFloat(k.K)
    /\ IsIntOrFloat(k.T)
    /\ IsIntOrFloat(k.rf)
    /\ IsIntOrFloat(k.sigma)
    /\ IsPyInt(k.n_simul)
    /\ IsIntOrFloat(k.dt)
    /\ ValidOptionType(k.option_type)
    /\ ValidOptionNature(k.option_nature)

InputValidation ==
    /\ pc = "validation"
    /\ IF Assertions(Kernel)
       THEN pc' = "simulation" /\ error' = error
       ELSE pc' = "idle" /\ error' = "AssertionError"
    /\ UNCHANGED <<inputs, cell4, option_price, namespace, rng, stdout,
                   assigned, draws, requests>>

----------------------------------------------------------------------------
(* Cell 4: Monte-Carlo simulation *)

\* the second half stacked without the minus sign
Antithetic_Unnegated(walks) == walks \o walks

\* np.vstack((random_walks, -random_walks))
Antithetic(walks) == walks \o [i \in 1..Len(walks) |-> [j \in 1..Len(walks[i]) |-> Neg(walks[i][j])]]

\* np.exp((rf - (sigma**2) / 2) * dt + sigma * (dt**0.5) * Z), elementwise
StepFactor(r, vol, step, z) ==
    Exp(Add(Mul(Sub(r, Div(Mul(vol, vol), Q(2))), step),
            Mul(Mul(vol, Sqrt(step)), z)))

Coefficients(r, vol, step, walks) ==
    [i \in 1..Len(walks) |-> [j \in 1..Len(walks[i]) |-> StepFactor(r, vol, step, walks[i][j])]]

\* the path that starts at S0 itself and lags the running product by a step
SimulatedPrices_FromSpot(spot, coeff) ==
    [i \in 1..Len(coeff) |->
        [j \in 1..Len(coeff[i]) |->
            IF j = 1 THEN spot ELSE Mul(spot, CumProd(coeff[i])[j - 1])]]

\* S0 * np.cumprod(coeff_multiplicateur, axis=1)
SimulatedPrices(spot, coeff) ==
    [i \in 1..Len(coeff) |-> [j \in 1..Len(coeff[i]) |-> Mul(spot, CumProd(coeff[i])[j])]]

\* simulated_prices[:, -1]
LastColumn(prices) == [i \in 1..Len(prices) |-> prices[i][Len(prices[i])]]

\* np.mean(simulated_prices, axis=1)
RowMeans(prices) == [i \in 1..Len(prices) |-> Mean(prices[i])]

\* np.maximum(v - K, 0) and np.maximum(K - v, 0)
CallPayoff(v, strike) == [i \in 1..Len(v) |-> Maximum(Sub(v[i], strike), Q(0))]
PutPayoff(v, strike) == [i \in 1..Len(v) |-> Maximum(Sub(strike, v[i]), Q(0))]

EuropeanCall(prices, strike) == CallPayoff(LastColumn(prices), strike)
EuropeanPut(prices, strike) == PutPayoff(LastColumn(prices), strike)
AsianCall(prices, strike) == CallPayoff(RowMeans(prices), strike)
AsianPut(prices, strike) == PutPayoff(RowMeans(prices), strike)

\* the if/elif chain: a style or type it does not name leaves payoff as it was
PayoffBranch(k) ==
    IF k.option_nature = "european"
    THEN IF k.option_type \in {"call", "put"}
         THEN IF k.n_steps = 0
              THEN Raise(k, "IndexError")
              ELSE Bind(k, "payoff",
                        IF k.option_type = "call"
                        THEN EuropeanCall(k.simulated_prices, k.K)
                        ELSE EuropeanPut(k.simulated_prices, k.K))
         ELSE k
    ELSE IF k.option_nature = "asiatic"
    THEN IF k.option_type = "call"
         THEN Bind(k, "payoff", AsianCall(k.simulated_prices, k.K))
         ELSE IF k.option_type = "put"
         THEN Bind(k, "payoff", AsianPut(k.simulated_prices, k.K))
         ELSE k
    ELSE k

DiscountFactor(r, maturity) == Exp(Neg(Mul(r, maturity)))

\* discount_factor * np.mean(payoff)
OptionPrice(discount, payoffs) == Mul(discount, Mean(payoffs))

\* lines 203-208
DiscountAndReport(k) ==
    LET k1 == Bind(k, "discount_factor", DiscountFactor(k.rf, k.T))
    IN  IF "payoff" \notin k1.namespace
        THEN Raise(k1, "NameError")
        ELSE LET k2 == Bind(k1, "option_price", OptionPrice(k1.discount_factor, k1.payoff))
             IN  Show(k2, [cell |-> "monte_carlo",
                           option_nature |-> k2.option_nature,
                           option_type |-> k2.option_type,
                           n_simul |-> k2.n_simul.val,
                           price |-> Format2f(k2.option_price)])

\* lines 169-184
SimulatePaths(k) ==
    IF k.dt.n = 0
    THEN Raise(k, "ZeroDivisionError")
    ELSE LET k1 == Bind(k, "n_steps", Trunc(Div(k.T, k.dt)))
             rows == Trunc(Div(Q(k1.n_simul.val), Q(2)))
         IN  IF rows < 0 \/ k1.n_steps < 0
             THEN Raise(k1, "ValueError")
             ELSE LET k2 == [Bind(k1, "random_walks", RandomNormal(k1.rng, rows, k1.n_steps))
                                EXCEPT !.rng = Advance(@, rows * k1.n_steps),
                                       !.draws = @ + rows * k1.n_steps]
                      k3 == Bind(k2, "antithetic_random_walks", Antithetic(k2.random_walks))
                      k4 == Bind(k3, "coeff_multiplicateur",
                                 Coefficients(k3.rf, k3.sigma, k3.dt, k3.antithetic_random_walks))
                  IN  Bind(k4, "simulated_prices", SimulatedPrices(k4.S0, k4.coeff_multiplicateur))

Cell4(k) ==
    LET k1 == SimulatePaths(k)
    IN  IF k1.error # "none" THEN k1
        ELSE LET k2 == PayoffBranch(k1)
             IN  IF k2.error # "none" THEN k2 ELSE DiscountAndReport(k2)

\* the kernel after a cell
Becomes(k) ==
    /\ n_steps' = k.n_steps
    /\ random_walks' = k.random_walks
    /\ antithetic_random_walks' = k.antithetic_random_walks
    /\ coeff_multiplicateur' = k.coeff_multiplicateur
    /\ simulated_prices' = k.simulated_prices
    /\ payoff' = k.payoff
    /\ discount_factor' = k.discount_factor
    /\ option_price' = k.option_price
    /\ namespace' = k.namespace
    /\ rng' = k.rng
    /\ error' = k.error
    /\ stdout' = k.stdout
    /\ assigned' = k.assigned
    /\ draws' = k.draws

MonteCarlo ==
    /\ pc = "simulation"
    /\ LET k == Cell4(Kernel)
       IN  /\ Becomes(k)
           /\ pc' = IF k.error = "none" THEN "black_scholes" ELSE "idle"
    /\ UNCHANGED <<inputs, requests>>

----------------------------------------------------------------------------
(* Cell 5: the Black-Scholes formula *)

\* sigma * np.sqrt(T): nan for T < 0, a zero exactly when sigma = 0 or T = 0
VolSqrtTIsNaN(vol, maturity) == IsNaN(vol) \/ IsNaN(maturity) \/ Lt(maturity, Q(0))
VolSqrtTIsZero(vol, maturity) ==
    ~VolSqrtTIsNaN(vol, maturity) /\ (vol.n = 0 \/ maturity.n = 0)

\* np.log(S0 / K) + (rf + 0.5 * sigma**2) * T
D1Numerator(spot, strike, maturity, r, vol) ==
    Add(Log(Div(spot, strike)),
        Mul(Add(r, Mul(Frac(1, 2), Mul(vol, vol))), maturity))

\* d1 has no finite value: the division gives +-inf or nan and goes on
D1IsSpecial(spot, strike, maturity, r, vol) ==
    \/ VolSqrtTIsNaN(vol, maturity)
    \/ VolSqrtTIsZero(vol, maturity)
    \/ ~IsFinite(D1Numerator(spot, strike, maturity, r, vol))

D1Special(spot, strike, maturity, r, vol) ==
    LET num == D1Numerator(spot, strike, maturity, r, vol)
        sign == IF vol.n < 0 THEN Q(-1) ELSE Q(1)
    IN  IF VolSqrtTIsNaN(vol, maturity) THEN NaN
        ELSE IF VolSqrtTIsZero(vol, maturity) THEN Mul(Div(num, Q(0)), sign)
        ELSE Div(num, sign)

\* norm.cdf at +inf, -inf and nan
NormCdfSpecial(x) == IF IsNaN(x) THEN NaN ELSE IF x.n > 0 THEN Q(1) ELSE Q(0)

\* lines 253-267; d2 = d1 - sigma*sqrt(T) is d1 itself when d1 is +-inf or nan
black_scholes_option(spot, strike, maturity, r, vol, type) ==
    IF strike.n = 0 /\ IsFinite(strike)
    THEN [raised |-> "ZeroDivisionError", option_value |-> NaN]
    ELSE IF type \notin {"call", "put"}
    THEN [raised |-> "ValueError", option_value |-> NaN]
    ELSE IF D1IsSpecial(spot, strike, maturity, r, vol)
    THEN LET d1 == D1Special(spot, strike, maturity, r, vol)
             d2 == IF VolSqrtTIsNaN(vol, maturity) THEN NaN ELSE d1
             discounted == Mul(strike, DiscountFactor(r, maturity))
         IN  [raised |-> "none",
              option_value |->
                  IF type = "call"
                  THEN Sub(Mul(spot, NormCdfSpecial(d1)),
                           Mul(discounted, NormCdfSpecial(d2)))
                  ELSE Sub(Mul(discounted, NormCdfSpecial(Neg(d2))),
                           Mul(spot, NormCdfSpecial(Neg(d1))))]
    ELSE [raised |-> "none",
          option_value |->
              [closed_form |-> type, S0 |-> spot, K |-> strike, T |-> maturity,
               rf |-> r, sigma |-> vol,
               d1_numerator |-> D1Numerator(spot, strike, maturity, r, vol)]]

IsNumber(v) == DOMAIN v = {"n", "d"}

\* the cell without its test of option_nature
Cell5_AnyNature(k) ==
    LET bs == black_scholes_option(k.S0, k.K, k.T, k.rf, k.sigma, k.option_type)
    IN  IF bs.raised # "none"
        THEN Raise(k, bs.raised)
        ELSE Show(Bind(k, "option_price", bs.option_value),
                  [cell |-> "black_scholes",
                   option_type |-> k.option_type,
                   price |-> IF IsNumber(bs.option_value)
                             THEN Format2f(bs.option_value)
                             ELSE bs.option_value])

\* lines 269-274
Cell5(k) ==
    IF k.option_nature # "european"
    THEN Raise(k, "ValueError")
    ELSE LET bs == black_scholes_option(k.S0, k.K, k.T, k.rf, k.sigma, k.option_type)
         IN  IF bs.raised # "none"
             THEN Raise(k, bs.raised)
             ELSE Show(Bind(k, "option_price", bs.option_value),
                       [cell |-> "black_scholes",
                        option_type |-> k.option_type,
                        price |-> IF IsNumber(bs.option_value)
                                  THEN Format2f(bs.option_value)
                                  ELSE bs.option_value])

BlackScholes ==
    /\ pc = "black_scholes"
    /\ Becomes(Cell5(Kernel))
    /\ pc' = "idle"
    /\ UNCHANGED <<inputs, requests>>

----------------------------------------------------------------------------
(* A fresh kernel: no input set, nothing computed, the generator seeded    *)
(* from entropy.                                                           *)

Init ==
    /\ S0 = Q(0) /\ K = Q(0) /\ T = Q(0) /\ rf = Q(0) /\ sigma = Q(0)
    /\ n_simul = PyInt(0) /\ dt = Q(0)
    /\ option_type = "" /\ option_nature = ""
    /\ n_steps = 0
    /\ random_walks = <<>>
    /\ antithetic_random_walks = <<>>
    /\ coeff_multiplicateur = <<>>
    /\ simulated_prices = <<>>
    /\ payoff = <<>>
    /\ discount_factor = NaN
    /\ option_price = NaN
    /\ namespace = {}
    /\ rng \in RngStates
    /\ pc = "idle"
    /\ error = "none"
    /\ stdout = <<>>
    /\ assigned = {}
    /\ draws = 0
    /\ requests = 0

Next == Inputs \/ EditInputs \/ InputValidation \/ MonteCarlo \/ BlackScholes

Spec == Init /\ [][Next]_vars

----------------------------------------------------------------------------
(* Properties *)

\* the current request has run to its end
Finished == pc = "idle" /\ requests > 0

\* the current request has bound this name
Computed(name) == name \in assigned

\* C1: for every even n_simul >= 2 and every n_steps >= 1 the matrix of
\* normals the request generates has n_simul rows of n_steps entries each,
\* and row i + n_simul/2 is the exact negation of row i, entry by entry.
C1_AntitheticPairing ==
    (/\ Computed("antithetic_random_walks")
     /\ n_simul.val >= 2
     /\ n_simul.val % 2 = 0
     /\ n_steps >= 1)
    => LET Z == antithetic_random_walks
           half == n_simul.val \div 2
       IN  /\ Len(Z) = n_simul.val
           /\ \A i \in 1..Len(Z) : Len(Z[i]) = n_steps
           /\ \A i \in 1..half : \A j \in 1..n_steps :
                  /\ Z[i + half][j] = Neg(Z[i][j])
                  /\ Add(Z[i + half][j], Z[i][j]) = Q(0)

\* a request of four simulations and two steps whose first draw is not zero
C1_Witness ==
    /\ Computed("antithetic_random_walks")
    /\ n_simul.val = 4
    /\ n_steps = 2
    /\ Len(antithetic_random_walks) = 4
    /\ antithetic_random_walks[1][1] # Q(0)
    /\ antithetic_random_walks[3][1] = Neg(antithetic_random_walks[1][1])

\* the payoff the four contracts assign to one path
ContractPayoff(path, strike, style, type) ==
    LET steps == Len(path)
        mean == Div(SumSeq(path), Q(steps))
        underlying == IF style = "european" THEN path[steps] ELSE mean
    IN  IF type = "call"
        THEN Maximum(Sub(underlying, strike), Q(0))
        ELSE Maximum(Sub(strike, underlying), Q(0))

\* C2: for every simulated path the payoff is max(S_final - K, 0) for a
\* European call, max(K - S_final, 0) for a European put, max(mean - K, 0)
\* for an Asian call and max(K - mean, 0) for an Asian put, S_final being the
\* last entry of the path and mean the arithmetic mean of all its n_steps
\* entries; and every payoff is >= 0.
C2_PayoffPerPath ==
    Computed("payoff")
    => /\ Len(payoff) = Len(simulated_prices)
       /\ \A i \in 1..Len(payoff) :
              /\ Len(simulated_prices[i]) = n_steps
              /\ payoff[i] = ContractPayoff(simulated_prices[i], K,
                                            option_nature, option_type)
              /\ Le(Q(0), payoff[i])

\* C3: the estimated price is exp(-rf * T) times the arithmetic mean of the
\* payoff vector, and the payoff vector holds one payoff for each of the
\* n_simul paths of the batch, in batch order.
C3_DiscountedMeanOfBatch ==
    (pc = "black_scholes" /\ Computed("option_price"))
    => /\ option_price = Mul(Exp(Neg(Mul(rf, T))), Mean(payoff))
       /\ Computed("payoff")
       /\ Len(simulated_prices) = n_simul.val
       /\ Len(payoff) = n_simul.val
       /\ \A i \in 1..Len(payoff) :
              payoff[i] = ContractPayoff(simulated_prices[i], K,
                                         option_nature, option_type)

\* C4: a request whose n_simul is odd or below 2 fails; it produces no
\* random matrix and returns no price.
C4_OddSimulationsRejected ==
    (requests > 0 /\ (n_simul.val % 2 = 1 \/ n_simul.val < 2))
    => /\ ~Computed("random_walks")
       /\ ~Computed("option_price")
       /\ stdout = <<>>
       /\ (Finished => error # "none")

IsInteger(a) == a.d = 1

\* T/dt resolves to an integer step count >= 1
StepCountResolves ==
    /\ dt.n # 0
    /\ IsInteger(Div(T, dt))
    /\ Le(Q(1), Div(T, dt))

\* a numeric input is outside its domain
DomainViolated ==
    \/ Le(S0, Q(0))
    \/ Le(K, Q(0))
    \/ Le(T, Q(0))
    \/ Le(dt, Q(0))
    \/ Lt(sigma, Q(0))
    \/ ~StepCountResolves

\* C5: a request with a numeric input outside its domain fails before any
\* simulation work: no normal is drawn, nothing is computed, no price is
\* produced.
C5_InvalidNumbersFailFast ==
    (requests > 0 /\ DomainViolated)
    => /\ draws = 0
       /\ assigned = {}
       /\ stdout = <<>>
       /\ (Finished => error # "none")

\* the lines a cell has printed in the current request
Printed(cell) == {i \in 1..Len(stdout) : stdout[i].cell = cell}

ProductSupported ==
    /\ option_type \in {"call", "put"}
    /\ option_nature \in {"european", "asiatic"}

\* C6: a request whose option_type is not call or put, or whose
\* option_nature is not european or asiatic, ends with an error; it computes
\* no payoff vector and no price, and it reports nothing, in particular not
\* the discounted payoff of an earlier request.
C6_UnsupportedProductRejected ==
    (requests > 0 /\ ~ProductSupported)
    => /\ ~Computed("payoff")
       /\ ~Computed("option_price")
       /\ stdout = <<>>
       /\ (Finished => error # "none")

\* a second request, of an unsupported product, has failed in a kernel that
\* still holds the payoff and the price of the first
C6_Witness ==
    /\ Finished
    /\ requests = 2
    /\ ~ProductSupported
    /\ error = "AssertionError"
    /\ {"payoff", "option_price"} \subseteq namespace
    /\ Len(payoff) > 0

\* every input is in the domain the specification gives it
ValidConfiguration ==
    /\ ~DomainViolated
    /\ n_simul.pytype = "int"
    /\ n_simul.val >= 2
    /\ n_simul.val % 2 = 0
    /\ ProductSupported

\* C7: a request with a valid configuration ends without error with a result
\* that holds the Monte Carlo estimate; the result holds the Black-Scholes
\* price as well exactly when the option is European, and then the analytic
\* price stands next to the estimate and does not replace it.
C7_ResultHoldsEstimate ==
    (Finished /\ ValidConfiguration)
    => /\ error = "none"
       /\ \E i \in Printed("monte_carlo") :
              stdout[i].price = Format2f(OptionPrice(discount_factor, payoff))
       /\ (Printed("black_scholes") # {}) <=> (option_nature = "european")
       /\ option_price = OptionPrice(discount_factor, payoff)

\* C8: the Black-Scholes cell, run for an option that is not European, fails
\* with ValueError and yields no analytic price: it prints none and
\* option_price stays the Monte Carlo estimate.
C8_AnalyticRejectsNonEuropean ==
    (Finished /\ option_nature # "european" /\ Computed("option_price"))
    => /\ error = "ValueError"
       /\ Printed("black_scholes") = {}
       /\ option_price = OptionPrice(discount_factor, payoff)

\* an Asian request whose simulation succeeded and whose Black-Scholes cell
\* then raised
C8_Witness ==
    /\ Finished
    /\ option_nature = "asiatic"
    /\ Printed("monte_carlo") # {}
    /\ Computed("option_price")
    /\ error = "ValueError"

\* C9: the Black-Scholes cell, reached with sigma <= 0 or T <= 0, fails
\* instead of dividing by sigma*sqrt(T) = 0 and returning a value.
C9_AnalyticRejectsZeroVolatility ==
    (/\ Finished
     /\ option_nature = "european"
     /\ Printed("monte_carlo") # {}
     /\ (Le(sigma, Q(0)) \/ Le(T, Q(0))))
    => /\ error # "none"
       /\ Printed("black_scholes") = {}

\* C10: with sigma = 0 every path of the batch is the deterministic path
\* whose entry at time t = j*dt is S0*exp(rf*t), whatever the draws; all
\* payoffs of the batch are equal, and the European call payoff of every
\* path is max(S0*exp(rf*T) - K, 0).
C10_ZeroVolatilityDeterministic ==
    (Computed("simulated_prices") /\ sigma = Q(0))
    => /\ \A i \in 1..Len(simulated_prices) :
              \A j \in 1..Len(simulated_prices[i]) :
                  simulated_prices[i][j] = Mul(S0, Exp(Mul(rf, Mul(Q(j), dt))))
       /\ Computed("payoff")
          => /\ \A i, k \in 1..Len(payoff) : payoff[i] = payoff[k]
             /\ (option_nature = "european" /\ option_type = "call")
                => \A i \in 1..Len(payoff) :
                       payoff[i] = Maximum(Sub(Mul(S0, Exp(Mul(rf, T))), K), Q(0))

\* the generator state the current request's simulation started from
StartState == ((rng - 1 + draws * (Len(RandomStream) - 1)) % Len(RandomStream)) + 1

\* a kernel that has run no request, holding the current inputs, its
\* generator in state s
FreshKernel(s) ==
    [Kernel EXCEPT !.n_steps = 0,
                   !.random_walks = <<>>,
                   !.antithetic_random_walks = <<>>,
                   !.coeff_multiplicateur = <<>>,
                   !.simulated_prices = <<>>,
                   !.payoff = <<>>,
                   !.discount_factor = NaN,
                   !.option_price = NaN,
                   !.namespace = {},
                   !.rng = s,
                   !.error = "none",
                   !.stdout = <<>>,
                   !.assigned = {},
                   !.draws = 0]

\* the simulation cell has run in the current request
Simulated ==
    \/ pc = "black_scholes"
    \/ Finished /\ error # "AssertionError"

\* C11: the estimate is a function of the configuration and of the state of
\* the random source alone: a simulation run after other requests gives the
\* estimate, the printed price, the draws and the outcome that the same
\* configuration gives in a kernel that has run nothing, started from the
\* same generator state.
C11_EstimateDeterminedBySeed ==
    Simulated
    => LET alone == Cell4(FreshKernel(StartState))
       IN  /\ Len(stdout) >= Len(alone.stdout)
           /\ \A i \in 1..Len(alone.stdout) : stdout[i] = alone.stdout[i]
           /\ Printed("monte_carlo") = 1..Len(alone.stdout)
           /\ alone.rng = rng
           /\ (alone.error # "none") => (error = alone.error)
           /\ pc = "black_scholes"
              => /\ option_price = alone.option_price
                 /\ payoff = alone.payoff
                 /\ error = alone.error

\* the second request of a session has produced an estimate from draws of its
\* own, in a kernel that held the first request's payoff and price
C11_Witness ==
    /\ requests = 2
    /\ pc = "black_scholes"
    /\ draws > 0
    /\ Computed("option_price")
    /\ IsFinite(option_price)
    /\ option_price # Q(0)
    /\ stdout # <<>>

\* C12: for every configuration the validation accepts, n_steps is T/dt
\* rounded to the nearest integer and is >= 1, and every price path of the
\* batch has exactly n_steps entries; a ratio T/dt of 1.5 gives 2 steps.
C12_StepCountRounded ==
    Computed("n_steps")
    => /\ n_steps = RoundHalfEven(Div(T, dt))
       /\ n_steps >= 1
       /\ Computed("simulated_prices")
          => \A i \in 1..Len(simulated_prices) : Len(simulated_prices[i]) = n_steps

\* the GBM recursion run step by step: S_j = S_(j-1) * f_j from S_0 = spot,
\* the entries being S_1 .. S_n
RECURSIVE GbmRecursion(_, _)
GbmRecursion(spot, factors) ==
    IF factors = <<>> THEN <<>>
    ELSE LET earlier == GbmRecursion(spot, SubSeq(factors, 1, Len(factors) - 1))
             previous == IF earlier = <<>> THEN spot ELSE earlier[Len(earlier)]
         IN  Append(earlier, Mul(previous, factors[Len(factors)]))

\* the product f_1 * .. * f_j
RECURSIVE Product(_, _)
Product(factors, j) == IF j = 0 THEN Q(1) ELSE Mul(Product(factors, j - 1), factors[j])

\* C13: every price path equals the step-by-step GBM recursion on the factors
\* f_j = exp((rf - sigma^2/2)*dt + sigma*sqrt(dt)*Z_j): its first entry is
\* S0*f_1, each later entry is the entry before it times f_j, and entry j is
\* S0 times the product f_1 .. f_j.
C13_CumprodIsGbmRecursion ==
    Computed("simulated_prices")
    => /\ Len(simulated_prices) = Len(antithetic_random_walks)
       /\ \A i \in 1..Len(simulated_prices) :
              LET Z == antithetic_random_walks[i]
                  f == [j \in 1..Len(Z) |-> StepFactor(rf, sigma, dt, Z[j])]
                  path == simulated_prices[i]
              IN  /\ path = GbmRecursion(S0, f)
                  /\ Len(path) = Len(Z)
                  /\ \A j \in 1..Len(path) :
                         /\ j = 1 => path[j] = Mul(S0, f[1])
                         /\ j > 1 => path[j] = Mul(path[j - 1], f[j])
                         /\ path[j] = Mul(S0, Product(f, j))

\* a batch of two-step paths, one of which moves at both steps
C13_Witness ==
    /\ Computed("simulated_prices")
    /\ n_steps = 2
    /\ \E i \in 1..Len(simulated_prices) :
           /\ Len(simulated_prices[i]) = 2
           /\ simulated_prices[i][1] # S0
           /\ simulated_prices[i][2] # simulated_prices[i][1]
           /\ simulated_prices[i][2] # S0

----------------------------------------------------------------------------
(* What the code does keep of the statements above that it breaks *)

\* on paths that have an entry, each payoff is its contract's and is >= 0
PayoffPerPath_OnNonEmptyPaths == n_steps >= 1 => C2_PayoffPerPath

\* for an even n_simul, the estimate is the discounted mean of n_simul payoffs
DiscountedMeanOfBatch_OnEvenBatches ==
    n_simul.val % 2 = 0 => C3_DiscountedMeanOfBatch

\* when T is a whole number of steps, zero volatility gives the path
\* S0*exp(rf*t) and the European call payoff max(S0*exp(rf*T) - K, 0)
ZeroVolatilityDeterministic_OnWholeSteps ==
    StepCountResolves => C10_ZeroVolatilityDeterministic

\* the step count is T/dt cut to its integer part, and every price path of
\* the batch has that many entries
StepCount_Truncated ==
    Computed("n_steps")
    => /\ n_steps = Trunc(Div(T, dt))
       /\ Computed("simulated_prices")
          => \A i \in 1..Len(simulated_prices) : Len(simulated_prices[i]) = n_steps

\* when T is a whole number of steps, the step count is that number
StepCountRounded_OnWholeSteps == StepCountResolves => C12_StepCountRounded

====
